---- MODULE Spec2Model ----
(***************************************************************************)
(* Model of the QualityAssessor package: the three assessment engines      *)
(* (GRADE, Cochrane RoB 2.0, ROBINS-I), their aggregation algorithms and   *)
(* the assess_study pipeline of each.                                      *)
(*                                                                         *)
(* SpecAlg exercises the aggregation functions on their own, the way the   *)
(* unit tests call them; Spec runs assess_study step by step.              *)
(***************************************************************************)
EXTENDS Integers, Sequences, FiniteSets, TLC

VARIABLES
    fn,       \* SpecAlg: the function under call ("rob", "robins", "start")
    arg,      \* SpecAlg: its argument
    ret,      \* SpecAlg: its return value, "pending" before the call
    engine,   \* Spec: the engine assess_study is called on
    models,   \* Spec: the kind of the injected models['RoBDomain'] class
    pc,       \* Spec: position of the call inside assess_study
    paper,    \* Spec: the paper argument ("none" or "paper")
    chars,    \* Spec: the characteristics argument ("none" or a record)
    response, \* Spec: what llm.complete_with_json answers ("raise" or a record)
    llm_calls,\* Spec: number of complete_with_json invocations of this call
    starting, \* Spec: GRADE starting_level local ("unset" before the lookup)
    result,   \* Spec: the returned Assessment ("none" while there is none)
    error,    \* Spec: the raised exception ("none" while there is none)
    log,      \* Spec: the set of log events emitted by this call
    current,  \* SpecPair: which of two interleaved calls is taking steps (1, 2)
    saved,    \* SpecPair: the local variables of the call that is not
    given     \* SpecPair: the arguments each of the two calls was made with

algVars == <<fn, arg, ret>>
callVars == <<engine, models, pc, paper, chars, response, llm_calls, starting, result, error, log>>
pairVars == <<current, saved, given>>
vars == <<fn, arg, ret, engine, models, pc, paper, chars, response, llm_calls, starting, result, error, log, current, saved, given>>

----------------------------------------------------------------------------
(* Bounds of the model *)

\* longest Cochrane list with freely repeated domains handed to the algorithm
MaxRobLen == 3
\* longest ROBINS-I level list handed to the algorithm
MaxRobinsLen == 4
\* longest domain list in an upstream response of assess_study
MaxRespLen == 2

----------------------------------------------------------------------------
(* Vocabularies *)

LOW == "low"
SOME_CONCERNS == "some_concerns"
HIGH == "high"
MODERATE == "moderate"
SERIOUS == "serious"
CRITICAL == "critical"
NO_INFORMATION == "no_information"
VERY_LOW == "very_low"

RoBJudgment == {LOW, SOME_CONCERNS, HIGH}

RoBDomain ==
    << "randomization", "deviations_from_intended_interventions",
       "missing_outcome_data", "measurement_of_outcome",
       "selection_of_reported_result" >>

RoBDomainNames == {RoBDomain[i] : i \in DOMAIN RoBDomain}

ROBINSILevel == {LOW, MODERATE, SERIOUS, CRITICAL, NO_INFORMATION}

ROBINSIDomain ==
    << "confounding", "selection_of_participants",
       "classification_of_interventions", "deviations_from_interventions",
       "missing_data", "measurement_of_outcomes",
       "selection_of_reported_results" >>

ROBINSIDomainNames == {ROBINSIDomain[i] : i \in DOMAIN ROBINSIDomain}

GRADELevel == {HIGH, MODERATE, LOW, VERY_LOW}

GRADEDomain ==
    {"risk_of_bias", "inconsistency", "indirectness", "imprecision",
     "publication_bias"}

RCT == "randomized_controlled_trial"
COHORT == "cohort_study"
CASE_CONTROL == "case_control"
CROSS_SECTIONAL == "cross_sectional"
CASE_SERIES == "case_series"
SYSTEMATIC_REVIEW == "systematic_review"
META_ANALYSIS == "meta_analysis"
\* StudyDesign.OTHER (OTHER is a reserved word)
OTHER_DESIGN == "other"

StudyDesign ==
    {RCT, COHORT, CASE_CONTROL, CROSS_SECTIONAL, CASE_SERIES,
     SYSTEMATIC_REVIEW, META_ANALYSIS, OTHER_DESIGN}

\* a study_design value that is no member of StudyDesign
UNKNOWN_DESIGN == "not_a_study_design"

\* values _determine_starting_level can be handed that are no key of its
\* table: an unknown text, the name (not the value) of a member, None
OutOfTableDesigns == {UNKNOWN_DESIGN, "RCT", "None"}

----------------------------------------------------------------------------
(* Python values *)

\* The kinds of value a domain assessment's .domain can be: a plain string
\* (the unit tests' Mock objects), a member of a plain Enum class (the test
\* fixtures' MockRoBDomain) or a member of a str-mixin Enum class. Only the
\* Cochrane algorithm looks a domain up by its text, so only for RoBDomain is
\* the kind of the class left open (variable models); the members of the
\* other domain enumerations are written as those of a plain Enum.
DomainKinds == {"str", "Enum", "StrEnum"}

DomainValue(kind, name) == [cls |-> kind, value |-> name]

\* key == s for a dict key and a str s: a str or a str-mixin Enum member
\* equals (and hashes like) its text, a plain Enum member equals only itself.
PyKeyEqStr(key, s) == key.cls \in {"str", "StrEnum"} /\ key.value = s

\* the lists over S of length at most n
SeqsUpTo(S, n) == UNION {[1..k -> S] : k \in 0..n}

\* the permutations of 1..n
Perms(n) == {p \in [1..n -> 1..n] : \A i, j \in 1..n : p[i] = p[j] => i = j}

\* x in xs for a list xs
InList(x, xs) == \E i \in DOMAIN xs : xs[i] = x

\* xs.count(x)
RECURSIVE Count(_, _)
Count(x, xs) ==
    IF xs = <<>> THEN 0
    ELSE (IF Head(xs) = x THEN 1 ELSE 0) + Count(x, Tail(xs))

\* {d.domain: d.judgment for d in domain_assessments}.get(s): the judgment of
\* the last assessment whose key equals s, None when there is none.
DomainMapGet(domain_assessments, s) ==
    LET hits == {i \in DOMAIN domain_assessments :
                    PyKeyEqStr(domain_assessments[i].domain, s)}
    IN  IF hits = {} THEN "None"
        ELSE domain_assessments[CHOOSE i \in hits : \A j \in hits : j <= i].judgment

----------------------------------------------------------------------------
(* CochraneRoBAssessor._apply_rob_algorithm *)

critical_domains == <<"randomization", "deviations_from_intended_interventions">>

critical_concerns(domain_assessments) ==
    Cardinality({i \in DOMAIN critical_domains :
        DomainMapGet(domain_assessments, critical_domains[i])
            \in {SOME_CONCERNS, HIGH}})

\* mutant: the high-risk check looks at the first domain only
apply_rob_algorithm_first_only(domain_assessments) ==
    LET domain_risks == [i \in DOMAIN domain_assessments |->
                            domain_assessments[i].judgment]
    IN  IF domain_risks # <<>> /\ domain_risks[1] = HIGH THEN HIGH
        ELSE IF critical_concerns(domain_assessments) >= 2 THEN HIGH
        ELSE IF InList(SOME_CONCERNS, domain_risks)
             THEN (IF Count(SOME_CONCERNS, domain_risks) >= 3
                   THEN HIGH ELSE SOME_CONCERNS)
        ELSE LOW

apply_rob_algorithm(domain_assessments) ==
    LET domain_risks == [i \in DOMAIN domain_assessments |->
                            domain_assessments[i].judgment]
    IN  IF InList(HIGH, domain_risks) THEN HIGH
        ELSE IF critical_concerns(domain_assessments) >= 2 THEN HIGH
        ELSE IF InList(SOME_CONCERNS, domain_risks)
             THEN (IF Count(SOME_CONCERNS, domain_risks) >= 3
                   THEN HIGH ELSE SOME_CONCERNS)
        ELSE LOW

----------------------------------------------------------------------------
(* ROBINSIAssessor._apply_robins_i_algorithm *)

\* mutant: no_information is checked before moderate
apply_robins_i_algorithm_ni_first(domain_assessments) ==
    LET domain_levels == [i \in DOMAIN domain_assessments |->
                            domain_assessments[i].level]
    IN  IF InList(CRITICAL, domain_levels) THEN CRITICAL
        ELSE IF InList(SERIOUS, domain_levels) THEN SERIOUS
        ELSE IF InList(NO_INFORMATION, domain_levels) THEN NO_INFORMATION
        ELSE IF InList(MODERATE, domain_levels) THEN MODERATE
        ELSE LOW

\* mutant: only the first and the last domain are looked at
apply_robins_i_algorithm_ends(domain_assessments) ==
    LET n == Len(domain_assessments)
        domain_levels == IF n = 0 THEN <<>>
                         ELSE <<domain_assessments[1].level,
                                domain_assessments[n].level>>
    IN  IF InList(CRITICAL, domain_levels) THEN CRITICAL
        ELSE IF InList(SERIOUS, domain_levels) THEN SERIOUS
        ELSE IF InList(MODERATE, domain_levels) THEN MODERATE
        ELSE IF InList(NO_INFORMATION, domain_levels) THEN NO_INFORMATION
        ELSE LOW

apply_robins_i_algorithm(domain_assessments) ==
    LET domain_levels == [i \in DOMAIN domain_assessments |->
                            domain_assessments[i].level]
    IN  IF InList(CRITICAL, domain_levels) THEN CRITICAL
        ELSE IF InList(SERIOUS, domain_levels) THEN SERIOUS
        ELSE IF InList(MODERATE, domain_levels) THEN MODERATE
        ELSE IF InList(NO_INFORMATION, domain_levels) THEN NO_INFORMATION
        ELSE LOW

----------------------------------------------------------------------------
(* GRADEAssessor._determine_starting_level *)

design_to_level ==
    [d \in StudyDesign |->
        CASE d = RCT -> HIGH
          [] d = COHORT -> LOW
          [] d = CASE_CONTROL -> LOW
          [] d = CROSS_SECTIONAL -> VERY_LOW
          [] d = CASE_SERIES -> VERY_LOW
          [] d = SYSTEMATIC_REVIEW -> LOW
          [] d = META_ANALYSIS -> HIGH
          [] d = OTHER_DESIGN -> VERY_LOW]

\* mutant: a design outside the table silently gets the lowest level
determine_starting_level_default(study_design) ==
    IF study_design \notin DOMAIN design_to_level THEN VERY_LOW
    ELSE design_to_level[study_design]

\* mutant: observational designs all start at very_low
determine_starting_level_obs_very_low(study_design) ==
    IF study_design \notin DOMAIN design_to_level THEN "ValueError"
    ELSE IF study_design \in {RCT, META_ANALYSIS} THEN HIGH
    ELSE VERY_LOW

determine_starting_level(study_design) ==
    IF study_design \notin DOMAIN design_to_level THEN "ValueError"
    ELSE design_to_level[study_design]

----------------------------------------------------------------------------
(* assess_study: the values it works on *)

NoValue == [type |-> "none"]

\* the exceptions assess_study lets out: a bare ValueError of the input
\* validation, or self.exception_class raised by the applicability check or
\* by one of the three except clauses (which chain the cause with "from e")
Raised(cls, message, cause) == [type |-> cls, message |-> message, cause |-> cause]

\* the keys of json_data a response may lack (at most one in this model;
\* GRADE responses may also lack "starting_level")
MissingKeys == {"none", "domains", "overall", "summary"}

\* a text no enumeration has as a value
BOGUS == "bogus"

\* an optional text: Str(t) for the str t, NoValue for None or a missing key
Str(t) == [type |-> "str", value |-> t]

\* Python's "v or default" on an optional text: None and "" give the default
OrDefault(v, default) ==
    IF v = NoValue THEN default
    ELSE IF v.value = "" THEN default
    ELSE v.value

\* The upstream responses the model draws from: any domain list of the sets
\* below, with either a well-formed remainder (every valid verdict), or an
\* unknown verdict, or one key missing.

\* entries of the lists shorter than the full set: the two critical domains
\* with every judgment, a name no RoBDomain member has, a judgment no
\* RoBJudgment member has
RobRespEntries ==
    {[domain |-> d, judgment |-> j] :
        d \in {"randomization", "deviations_from_intended_interventions"},
        j \in RoBJudgment}
    \cup {[domain |-> "domain_0", judgment |-> LOW],
          [domain |-> "randomization", judgment |-> BOGUS]}

RobRespLists ==
    {[i \in DOMAIN RoBDomain |-> [domain |-> RoBDomain[i], judgment |-> a[i]]] :
        a \in [DOMAIN RoBDomain -> RoBJudgment]}
    \cup SeqsUpTo(RobRespEntries, MaxRespLen)

CochraneResponses ==
    {[type |-> "json", domains |-> ds, overall_risk |-> o, missing |-> "none"] :
        ds \in RobRespLists, o \in RoBJudgment \cup {BOGUS}}
    \cup {[type |-> "json", domains |-> ds, overall_risk |-> LOW, missing |-> m] :
        ds \in RobRespLists, m \in MissingKeys \ {"none"}}

RobinsRespEntries ==
    {[domain |-> "confounding", level |-> l] : l \in ROBINSILevel}
    \cup {[domain |-> "domain_0", level |-> LOW],
          [domain |-> "confounding", level |-> BOGUS]}

\* the seven domains in the enumeration's order: every domain at the same
\* level, or the first one at another level than the rest
RobinsFullLists ==
    {[i \in DOMAIN ROBINSIDomain |->
        [domain |-> ROBINSIDomain[i], level |-> IF i = 1 THEN a ELSE b]] :
        a \in {LOW, SERIOUS}, b \in {LOW, MODERATE}}

RobinsRespLists == SeqsUpTo(RobinsRespEntries, MaxRespLen) \cup RobinsFullLists

\* data["target_trial"]: no such key, an empty text, texts of 19 and of 20
\* characters, a longer one
LongTargetTrial == Str("A randomized trial of statin against placebo")

TargetTrials ==
    {NoValue, Str(""), Str("A target trial of X"), Str("A target trial of XY"),
     LongTargetTrial}

RobinsResponses ==
    {[type |-> "json", domains |-> ds, overall_bias |-> o, missing |-> "none",
      target_trial |-> LongTargetTrial] :
        ds \in RobinsRespLists, o \in ROBINSILevel \cup {BOGUS}}
    \cup {[type |-> "json", domains |-> ds, overall_bias |-> LOW, missing |-> m,
           target_trial |-> t] :
        ds \in RobinsRespLists, m \in MissingKeys,
        t \in TargetTrials \ {LongTargetTrial}}

GradeRatings == {"not_serious", "serious", "very_serious"}

GradeRespEntries ==
    {[domain |-> d, rating |-> r] :
        d \in {"risk_of_bias", "imprecision"}, r \in GradeRatings}
    \cup {[domain |-> "domain_0", rating |-> "not_serious"],
          [domain |-> "risk_of_bias", rating |-> BOGUS]}

GradeRespLists == SeqsUpTo(GradeRespEntries, MaxRespLen)

GradeResponses ==
    {[type |-> "json", domains |-> ds, final_grade |-> g, starting_level |-> st,
      missing |-> "none"] :
        ds \in GradeRespLists, g \in GRADELevel, st \in {HIGH, VERY_LOW}}
    \cup {[type |-> "json", domains |-> ds, final_grade |-> f[1],
           starting_level |-> f[2], missing |-> "none"] :
        ds \in GradeRespLists, f \in {<<BOGUS, HIGH>>, <<LOW, BOGUS>>}}
    \cup {[type |-> "json", domains |-> ds, final_grade |-> LOW,
           starting_level |-> HIGH, missing |-> m] :
        ds \in GradeRespLists, m \in (MissingKeys \ {"none"}) \cup {"starting_level"}}

Responses(e) ==
    {[type |-> "raise"]} \cup
        (CASE e = "cochrane" -> CochraneResponses
           [] e = "robins" -> RobinsResponses
           [] e = "grade" -> GradeResponses)

Engines == {"grade", "cochrane", "robins"}

----------------------------------------------------------------------------
(* CochraneRoBAssessor.assess_study, from the response on *)

\* mutant: the proposed verdict is never found to differ
verdicts_differ_never(proposed, computed_overall) == FALSE

\* "if computed_overall != overall_risk" (Cochrane, line 150) and
\* "if computed_overall != overall_bias" (ROBINS-I, line 191): the condition
\* under which the warning is logged and the computed value taken
verdicts_differ(proposed, computed_overall) == computed_overall # proposed

\* mutant: the proposed verdict may be left out or unknown
parse_overall_optional(data, proposed, members) == "none"

\* RoBJudgment(data["overall_risk"]) (Cochrane, line 146) and
\* ROBINSILevel(data["overall_bias"]) (ROBINS-I, line 187): the exception
\* that reading and converting the proposed verdict raises, "none" if none
parse_overall(data, proposed, members) ==
    IF data.missing = "overall" THEN "KeyError"
    ELSE IF proposed \notin members THEN "ValueError"
    ELSE "none"

\* RoBDomain(name), RoBJudgment(text): ValueError unless a member has the value
RobEntryValid(domain_data) ==
    domain_data.domain \in RoBDomainNames /\ domain_data.judgment \in RoBJudgment

\* mutant: the value the upstream response proposed is kept
cochrane_reconcile_keep_llm(overall_risk, computed_overall) == overall_risk

\* lines 149-155: the computed value replaces a differing proposed one
cochrane_reconcile(overall_risk, computed_overall) ==
    IF verdicts_differ(overall_risk, computed_overall) THEN computed_overall
    ELSE overall_risk

\* what the try block does with the response: the Assessment it returns or
\* the exception the first failing statement raises, and the warnings logged
\* on the way
cochrane_parse(data, kind) ==
    IF data.type = "raise" THEN [raised |-> "Exception", logged |-> {}]
    ELSE IF data.missing = "domains" THEN [raised |-> "KeyError", logged |-> {}]
    ELSE IF \E i \in DOMAIN data.domains : ~RobEntryValid(data.domains[i])
         THEN [raised |-> "ValueError", logged |-> {}]
    ELSE IF parse_overall(data, data.overall_risk, RoBJudgment) # "none"
         THEN [raised |-> parse_overall(data, data.overall_risk, RoBJudgment),
               logged |-> {}]
    ELSE LET domain_assessments ==
                 [i \in DOMAIN data.domains |->
                    [domain |-> DomainValue(kind, data.domains[i].domain),
                     judgment |-> data.domains[i].judgment]]
             computed_overall == apply_rob_algorithm(domain_assessments)
             logged == IF verdicts_differ(data.overall_risk, computed_overall)
                       THEN {"warning_discrepancy"} ELSE {}
         IN  IF data.missing = "summary"
             THEN [raised |-> "KeyError", logged |-> logged]
             ELSE [raised |-> "none",
                   logged |-> logged,
                   assessment |->
                     [type |-> "CochraneRoBAssessment",
                      overall_risk |->
                          cochrane_reconcile(data.overall_risk, computed_overall),
                      domain_assessments |-> domain_assessments]]

----------------------------------------------------------------------------
(* ROBINSIAssessor.assess_study, from the response on *)

RobinsEntryValid(domain_data) ==
    domain_data.domain \in ROBINSIDomainNames /\ domain_data.level \in ROBINSILevel

\* mutant: the value the upstream response proposed is kept
robins_reconcile_keep_llm(overall_bias, computed_overall) == overall_bias

\* lines 190-196
robins_reconcile(overall_bias, computed_overall) ==
    IF verdicts_differ(overall_bias, computed_overall) THEN computed_overall
    ELSE overall_bias

\* lines 132-135, 163-166: the description made up from the characteristics
synthesized_target_trial(characteristics) ==
    LET population == OrDefault(characteristics.population, "not specified")
        intervention ==
            OrDefault(characteristics.intervention_exposure, "not specified")
        comparator == OrDefault(characteristics.comparator, "not specified")
        outcome == OrDefault(characteristics.primary_outcome, "not specified")
    IN  "Hypothetical RCT comparing " \o intervention \o " vs " \o comparator
            \o " in " \o population \o " measuring " \o outcome

\* line 160: data.get("target_trial", "")
upstream_target_trial(data) ==
    IF data.target_trial = NoValue THEN "" ELSE data.target_trial.value

\* line 161: "not target_trial or len(target_trial) < 20"
target_trial_too_short(target_trial) ==
    target_trial = "" \/ Len(target_trial) < 20

\* mutant: only a missing or empty description is replaced
robins_target_trial_nonempty(data, characteristics) ==
    IF upstream_target_trial(data) = ""
    THEN synthesized_target_trial(characteristics)
    ELSE upstream_target_trial(data)

\* lines 160-166: the target trial description of the Assessment
robins_target_trial(data, characteristics) ==
    IF target_trial_too_short(upstream_target_trial(data))
    THEN synthesized_target_trial(characteristics)
    ELSE upstream_target_trial(data)

\* what the try block does with the response: the Assessment it returns or
\* the exception the first failing statement raises, and the warnings logged
\* on the way
robins_parse(data, characteristics) ==
    IF data.type = "raise" THEN [raised |-> "Exception", logged |-> {}]
    ELSE LET short ==
                 IF target_trial_too_short(upstream_target_trial(data))
                 THEN {"warning_target_trial"} ELSE {}
         IN
         IF data.missing = "domains" THEN [raised |-> "KeyError", logged |-> short]
         ELSE IF \E i \in DOMAIN data.domains : ~RobinsEntryValid(data.domains[i])
              THEN [raised |-> "ValueError", logged |-> short]
         ELSE IF parse_overall(data, data.overall_bias, ROBINSILevel) # "none"
              THEN [raised |-> parse_overall(data, data.overall_bias, ROBINSILevel),
                    logged |-> short]
         ELSE LET domain_assessments ==
                      [i \in DOMAIN data.domains |->
                         [domain |-> DomainValue("Enum", data.domains[i].domain),
                          level |-> data.domains[i].level]]
                  computed_overall == apply_robins_i_algorithm(domain_assessments)
                  logged ==
                      short \cup (IF verdicts_differ(data.overall_bias, computed_overall)
                                  THEN {"warning_discrepancy"} ELSE {})
              IN  IF data.missing = "summary"
                  THEN [raised |-> "KeyError", logged |-> logged]
                  ELSE [raised |-> "none",
                        logged |-> logged,
                        assessment |->
                          [type |-> "ROBINSIAssessment",
                           study_design |-> characteristics.study_design,
                           target_trial_description |->
                               robins_target_trial(data, characteristics),
                           overall_bias |->
                               robins_reconcile(data.overall_bias, computed_overall),
                           domain_assessments |-> domain_assessments]]

----------------------------------------------------------------------------
(* GRADEAssessor.assess_study, from the response on *)

\* mutant: a very serious concern counts like a serious one
Downgrade_flat(rating) ==
    IF rating = "serious" THEN 1
    ELSE IF rating = "very_serious" THEN 1
    ELSE 0

\* lines 147-152: what one domain assessment adds to the tally
Downgrade(rating) ==
    IF rating = "serious" THEN 1
    ELSE IF rating = "very_serious" THEN 2
    ELSE 0

\* total_downgrades after the loop of lines 146-152
RECURSIVE total_downgrades(_)
total_downgrades(domain_assessments) ==
    IF domain_assessments = <<>> THEN 0
    ELSE Downgrade(Head(domain_assessments).rating)
            + total_downgrades(Tail(domain_assessments))

\* downgrades_by_domain after the loop: a dict keyed by d.domain.value, each
\* assignment overwriting an earlier one under the same key
downgrades_by_domain(domain_assessments) ==
    LET hits(name) == {i \in DOMAIN domain_assessments :
                          /\ domain_assessments[i].domain.value = name
                          /\ Downgrade(domain_assessments[i].rating) > 0}
        keys == {name \in GRADEDomain : hits(name) # {}}
    IN  [name \in keys |->
            Downgrade(domain_assessments[
                CHOOSE i \in hits(name) : \A j \in hits(name) : j <= i].rating)]

\* mutant: the overall certainty is the starting level looked up for the design
grade_overall_from_design(data, starting_level) == starting_level

\* mutant: the overall certainty is read from the response's starting_level
grade_overall_wrong_key(data, starting_level) == data.starting_level

\* lines 140-141, 165: overall_certainty is GRADELevel(data["final_grade"])
grade_overall(data, starting_level) == data.final_grade

grade_parse(data, starting_level) ==
    IF data.type = "raise" THEN [raised |-> "Exception", logged |-> {}]
    ELSE IF data.missing = "domains" THEN [raised |-> "KeyError", logged |-> {}]
    ELSE IF \E i \in DOMAIN data.domains : data.domains[i].domain \notin GRADEDomain
         THEN [raised |-> "ValueError", logged |-> {}]
    ELSE IF data.missing = "overall" THEN [raised |-> "KeyError", logged |-> {}]
    ELSE IF data.final_grade \notin GRADELevel THEN [raised |-> "ValueError", logged |-> {}]
    ELSE IF data.missing = "starting_level" THEN [raised |-> "KeyError", logged |-> {}]
    ELSE IF data.starting_level \notin GRADELevel THEN [raised |-> "ValueError", logged |-> {}]
    ELSE IF data.missing = "summary" THEN [raised |-> "KeyError", logged |-> {}]
    ELSE LET domain_assessments ==
                 [i \in DOMAIN data.domains |->
                    [domain |-> DomainValue("Enum", data.domains[i].domain),
                     rating |-> data.domains[i].rating]]
         IN  [raised |-> "none",
              logged |-> {},
              assessment |->
                [type |-> "GRADEAssessment",
                 overall_certainty |-> grade_overall(data, starting_level),
                 starting_level |-> data.starting_level,
                 domain_assessments |-> domain_assessments,
                 total_downgrades |-> total_downgrades(domain_assessments),
                 downgrades_by_domain |-> downgrades_by_domain(domain_assessments)]]

----------------------------------------------------------------------------
(* SpecAlg: the aggregation functions called directly on a list *)

\* the five Cochrane domains, each with a judgment, listed in any order
RobFullLists(kind) ==
    LET n == Len(RoBDomain)
    IN  {[i \in 1..n |-> [domain |-> DomainValue(kind, RoBDomain[p[i]]),
                          judgment |-> a[p[i]]]] :
            p \in Perms(n), a \in [1..n -> RoBJudgment]}

\* short lists in which a domain may be missing or repeated
RobShortLists(kind) ==
    SeqsUpTo({[domain |-> DomainValue(kind, d), judgment |-> j] :
                d \in RoBDomainNames, j \in RoBJudgment}, MaxRobLen)

RobLists(kinds) == UNION {RobFullLists(kind) \cup RobShortLists(kind) : kind \in kinds}

\* ROBINS-I lists: the i-th assessment is of the i-th domain
RobinsLists(n) ==
    {[i \in DOMAIN ls |-> [domain |-> DomainValue("Enum", ROBINSIDomain[i]),
                            level |-> ls[i]]] :
        ls \in SeqsUpTo(ROBINSILevel, n)}

\* the local variables of a call that has not begun
IdleLocals ==
    [pc |-> "idle", paper |-> "none", chars |-> NoValue, response |-> NoValue,
     llm_calls |-> 0, starting |-> "unset", result |-> NoValue,
     error |-> NoValue, log |-> {}]

\* no second call is going on
InitPairVars ==
    /\ current = 1
    /\ saved = IdleLocals
    /\ given = <<NoValue, NoValue>>

\* no assess_study call is made under SpecAlg
InitCall ==
    /\ InitPairVars
    /\ engine = "none"
    /\ models = "Enum"
    /\ pc = "idle"
    /\ paper = "none"
    /\ chars = NoValue
    /\ response = NoValue
    /\ llm_calls = 0
    /\ starting = "unset"
    /\ result = NoValue
    /\ error = NoValue
    /\ log = {}

InitAlg ==
    /\ ret = "pending"
    /\ \/ fn = "rob" /\ arg \in RobLists(DomainKinds)
       \/ fn = "robins" /\ arg \in RobinsLists(MaxRobinsLen)
       \/ fn = "start" /\ arg \in StudyDesign \cup OutOfTableDesigns
    /\ InitCall

ApplyRob ==
    /\ fn = "rob" /\ ret = "pending"
    /\ ret' = apply_rob_algorithm(arg)
    /\ UNCHANGED <<fn, arg, pairVars>>
    /\ UNCHANGED callVars

ApplyRobins ==
    /\ fn = "robins" /\ ret = "pending"
    /\ ret' = apply_robins_i_algorithm(arg)
    /\ UNCHANGED <<fn, arg, pairVars>>
    /\ UNCHANGED callVars

DetermineStartingLevel ==
    /\ fn = "start" /\ ret = "pending"
    /\ ret' = determine_starting_level(arg)
    /\ UNCHANGED <<fn, arg, pairVars>>
    /\ UNCHANGED callVars

NextAlg == ApplyRob \/ ApplyRobins \/ DetermineStartingLevel

SpecAlg == InitAlg /\ [][NextAlg]_vars

----------------------------------------------------------------------------
(* Spec: assess_study of the three engines, one call at a time *)

\* ROBINSIAssessor.APPLICABLE_DESIGNS
APPLICABLE_DESIGNS == {COHORT, CASE_CONTROL, CASE_SERIES}

\* the optional texts of the characteristics, which only ROBINS-I reads:
\* none given, all given, an empty population, no comparator
StudyTexts ==
    {[population |-> NoValue, intervention_exposure |-> NoValue,
      comparator |-> NoValue, primary_outcome |-> NoValue],
     [population |-> Str("adults"), intervention_exposure |-> Str("statin"),
      comparator |-> Str("placebo"), primary_outcome |-> Str("mortality")],
     [population |-> Str(""), intervention_exposure |-> Str("statin"),
      comparator |-> Str("placebo"), primary_outcome |-> Str("mortality")],
     [population |-> Str("adults"), intervention_exposure |-> Str("statin"),
      comparator |-> NoValue, primary_outcome |-> Str("mortality")]}

Characteristics(e) ==
    {[type |-> "characteristics", study_design |-> d,
      population |-> t.population,
      intervention_exposure |-> t.intervention_exposure,
      comparator |-> t.comparator,
      primary_outcome |-> t.primary_outcome] :
        d \in StudyDesign \cup {UNKNOWN_DESIGN},
        t \in IF e = "robins" THEN StudyTexts
               ELSE {ts \in StudyTexts : ts.population = NoValue}}

\* mutant: the except clauses let the exception through under its own name
ExceptMessage_unwrapped(cls) == cls

\* the message of the except clause that catches an exception of class cls
ExceptMessage(cls) ==
    CASE cls = "KeyError" -> "missing key"
      [] cls = "ValueError" -> "invalid value"
      [] cls = "Exception" -> "assessment failed"

Init ==
    /\ fn = "none" /\ arg = <<>> /\ ret = "pending"
    /\ InitPairVars
    /\ engine = "none"
    /\ models \in {"Enum", "StrEnum"}
    /\ pc = "idle"
    /\ paper = "none"
    /\ chars = NoValue
    /\ response = NoValue
    /\ llm_calls = 0
    /\ starting = "unset"
    /\ result = NoValue
    /\ error = NoValue
    /\ log = {}

\* a caller invokes assess_study(paper, characteristics) on one of the engines
Call(e, p, c) ==
    /\ pc = "idle"
    /\ engine' = e
    /\ paper' = p
    /\ chars' = c
    /\ pc' = "validate"
    /\ response' = NoValue
    /\ llm_calls' = 0
    /\ starting' = "unset"
    /\ result' = NoValue
    /\ error' = NoValue
    /\ log' = {}
    /\ UNCHANGED <<models, fn, arg, ret, pairVars>>

\* mutant: the characteristics are looked at before the paper
validate_inputs_characteristics_first(p, c) ==
    IF c = NoValue THEN "characteristics cannot be None"
    ELSE IF p = "none" THEN "paper cannot be None"
    ELSE "ok"

\* "if not paper" / "if not characteristics": the message of the ValueError
\* raised, or "ok"
validate_inputs(p, c) ==
    IF p = "none" THEN "paper cannot be None"
    ELSE IF c = NoValue THEN "characteristics cannot be None"
    ELSE "ok"

\* the input validation, ahead of the try block
Validate ==
    /\ pc = "validate"
    /\ LET checked == validate_inputs(paper, chars)
       IN  IF checked # "ok"
           THEN /\ error' = Raised("ValueError", checked, "none")
                /\ pc' = "done"
           ELSE /\ error' = error
                /\ pc' = IF engine = "grade" THEN "prepare" ELSE "applicability"
    /\ UNCHANGED <<engine, models, paper, chars, response, llm_calls, starting,
                   result, log, fn, arg, ret, pairVars>>

\* mutant: a meta-analysis of trials is accepted too
cochrane_applicable_trials(study_design) == study_design \in {RCT, META_ANALYSIS}

\* characteristics.study_design != StudyDesign.RCT raises
cochrane_applicable(study_design) == study_design = RCT

\* mutant: a cross-sectional study is accepted too
robins_applicable_observational(study_design) ==
    study_design \in APPLICABLE_DESIGNS \cup {CROSS_SECTIONAL}

\* characteristics.study_design not in self.APPLICABLE_DESIGNS raises
robins_applicable(study_design) == study_design \in APPLICABLE_DESIGNS

\* the study-design check of the Cochrane and ROBINS-I engines, ahead of the
\* try block
CheckApplicable ==
    /\ pc = "applicability"
    /\ LET applicable ==
               IF engine = "cochrane" THEN cochrane_applicable(chars.study_design)
               ELSE robins_applicable(chars.study_design)
       IN  IF applicable
           THEN error' = error /\ pc' = "prepare"
           ELSE /\ error' = Raised("exception_class", "not applicable", "none")
                /\ pc' = "done"
    /\ UNCHANGED <<engine, models, paper, chars, response, llm_calls, starting,
                   result, log, fn, arg, ret, pairVars>>

\* mutant: the note on case series is never logged
case_series_note_never(study_design) == {}

\* ROBINS-I lines 104-110: logger.info of the note on case series
case_series_note(study_design) ==
    IF study_design = CASE_SERIES THEN {"info_case_series"} ELSE {}

\* the try block up to the prompt: the start is logged, ROBINS-I notes a case
\* series, GRADE looks the starting level up (a ValueError of the lookup is
\* caught by "except ValueError")
Prepare ==
    /\ pc = "prepare"
    /\ LET level == IF engine = "grade"
                    THEN determine_starting_level(chars.study_design)
                    ELSE "unset"
           note == IF engine = "robins" THEN case_series_note(chars.study_design)
                   ELSE {}
       IN  /\ log' = log \cup {"info_start"} \cup note
           /\ IF level = "ValueError"
              THEN /\ error' = Raised("exception_class", ExceptMessage("ValueError"),
                                      "ValueError")
                   /\ starting' = starting
                   /\ pc' = "done"
              ELSE /\ error' = error
                   /\ starting' = level
                   /\ pc' = "call_llm"
    /\ UNCHANGED <<engine, models, paper, chars, response, llm_calls, result,
                   fn, arg, ret, pairVars>>

\* self.llm.complete_with_json(...) answering with one of the responses rs
Complete(rs) ==
    /\ pc = "call_llm"
    /\ \E r \in rs : response' = r
    /\ llm_calls' = llm_calls + 1
    /\ pc' = "parse"
    /\ UNCHANGED <<engine, models, paper, chars, starting, result, error, log,
                   fn, arg, ret, pairVars>>

\* mutant: an upstream call that raised is made once more
CallLLM_retry ==
    /\ \/ pc = "call_llm"
       \/ pc = "parse" /\ response.type = "raise" /\ llm_calls < 2
    /\ \E r \in Responses(engine) : response' = r
    /\ llm_calls' = llm_calls + 1
    /\ pc' = "parse"
    /\ UNCHANGED <<engine, models, paper, chars, starting, result, error, log,
                   fn, arg, ret, pairVars>>

\* self.llm.complete_with_json(...): the upstream model answers or raises
CallLLM == Complete(Responses(engine))

\* the rest of the try block and its except clauses
Parse ==
    /\ pc = "parse"
    /\ LET out == CASE engine = "cochrane" -> cochrane_parse(response, models)
                    [] engine = "robins" -> robins_parse(response, chars)
                    [] engine = "grade" -> grade_parse(response, starting)
       IN  IF out.raised = "none"
           THEN /\ result' = out.assessment
                /\ error' = error
                /\ log' = log \cup out.logged
           ELSE /\ result' = result
                /\ error' = Raised("exception_class", ExceptMessage(out.raised),
                                   out.raised)
                /\ log' = log \cup out.logged
                             \cup (IF out.raised = "Exception" THEN {"error"} ELSE {})
    /\ pc' = "done"
    /\ UNCHANGED <<engine, models, paper, chars, response, llm_calls, starting,
                   fn, arg, ret, pairVars>>

\* the call is over (its Assessment returned or its exception raised) and
\* the engines are ready for the next one; nothing of the call is kept
Return ==
    /\ pc = "done"
    /\ pc' = "idle"
    /\ engine' = "none"
    /\ paper' = "none"
    /\ chars' = NoValue
    /\ response' = NoValue
    /\ llm_calls' = 0
    /\ starting' = "unset"
    /\ result' = NoValue
    /\ error' = NoValue
    /\ log' = {}
    /\ UNCHANGED <<models, fn, arg, ret, pairVars>>

Next ==
    \/ \E e \in Engines :
          \E p \in {"none", "paper"}, c \in Characteristics(e) \cup {NoValue} :
              Call(e, p, c)
    \/ Validate
    \/ CheckApplicable
    \/ Prepare
    \/ CallLLM
    \/ Parse
    \/ Return

Spec == Init /\ [][Next]_vars

----------------------------------------------------------------------------
(* SpecPair: two assess_study calls on one engine instance, interleaved *)

\* The instance holds what __init__ assigned (self.llm, self.prompt_template,
\* self.models, self.exception_class; here engine and models); everything
\* assess_study works on is a parameter or a local variable of the call. The
\* variables of Spec are those of the call taking steps, saved holds those of
\* the other call.

\* the parameters and local variables of the call taking steps
Locals ==
    [pc |-> pc, paper |-> paper, chars |-> chars, response |-> response,
     llm_calls |-> llm_calls, starting |-> starting, result |-> result,
     error |-> error, log |-> log]

\* mutant: the paper is kept on the instance, where the last caller's stays
ResumedLocals_shared_paper == [saved EXCEPT !.paper = paper]

\* what a call finds in its parameters and local variables when it goes on
ResumedLocals == saved

\* a few responses of each engine: a failure of the call, a response that
\* parses (with a discrepancy), a response that does not
PairResponses(e) ==
    {[type |-> "raise"]} \cup
    CASE e = "cochrane" ->
           {[type |-> "json", missing |-> "none", overall_risk |-> LOW,
             domains |-> <<[domain |-> "randomization", judgment |-> HIGH]>>],
            [type |-> "json", missing |-> "none", overall_risk |-> BOGUS,
             domains |-> <<>>]}
      [] e = "robins" ->
           {[type |-> "json", missing |-> "none", overall_bias |-> LOW,
             target_trial |-> LongTargetTrial,
             domains |-> <<[domain |-> "confounding", level |-> SERIOUS]>>],
            [type |-> "json", missing |-> "summary", overall_bias |-> MODERATE,
             target_trial |-> NoValue, domains |-> <<>>]}
      [] e = "grade" ->
           {[type |-> "json", missing |-> "none", final_grade |-> LOW,
             starting_level |-> HIGH,
             domains |-> <<[domain |-> "risk_of_bias", rating |-> "serious"]>>],
            [type |-> "json", missing |-> "none", final_grade |-> BOGUS,
             starting_level |-> HIGH, domains |-> <<>>]}

\* characteristics of a trial, a cohort study and an unknown design
PairCharacteristics(e) ==
    {c \in Characteristics(e) :
        /\ c.study_design \in {RCT, COHORT, UNKNOWN_DESIGN}
        /\ c.population = NoValue}

InitPair ==
    /\ fn = "none" /\ arg = <<>> /\ ret = "pending"
    /\ InitPairVars
    /\ engine \in Engines
    /\ models \in {"Enum", "StrEnum"}
    /\ pc = "idle"
    /\ paper = "none"
    /\ chars = NoValue
    /\ response = NoValue
    /\ llm_calls = 0
    /\ starting = "unset"
    /\ result = NoValue
    /\ error = NoValue
    /\ log = {}

\* a caller invokes assess_study(paper, characteristics) on the instance
CallPair(p, c) ==
    /\ pc = "idle"
    /\ paper' = p
    /\ chars' = c
    /\ pc' = "validate"
    /\ response' = NoValue
    /\ llm_calls' = 0
    /\ starting' = "unset"
    /\ result' = NoValue
    /\ error' = NoValue
    /\ log' = {}
    /\ given' = [given EXCEPT ![current] = [paper |-> p, chars |-> c]]
    /\ UNCHANGED <<engine, models, current, saved, fn, arg, ret>>

CallLLMPair == Complete(PairResponses(engine))

\* the call taking steps is over; its caller may call again
ReturnPair ==
    /\ pc = "done"
    /\ pc' = "idle"
    /\ paper' = "none"
    /\ chars' = NoValue
    /\ response' = NoValue
    /\ llm_calls' = 0
    /\ starting' = "unset"
    /\ result' = NoValue
    /\ error' = NoValue
    /\ log' = {}
    /\ given' = [given EXCEPT ![current] = NoValue]
    /\ UNCHANGED <<engine, models, current, saved, fn, arg, ret>>

\* the scheduler lets the other call take the next steps
Switch ==
    /\ current' = IF current = 1 THEN 2 ELSE 1
    /\ saved' = Locals
    /\ pc' = ResumedLocals.pc
    /\ paper' = ResumedLocals.paper
    /\ chars' = ResumedLocals.chars
    /\ response' = ResumedLocals.response
    /\ llm_calls' = ResumedLocals.llm_calls
    /\ starting' = ResumedLocals.starting
    /\ result' = ResumedLocals.result
    /\ error' = ResumedLocals.error
    /\ log' = ResumedLocals.log
    /\ UNCHANGED <<engine, models, given, fn, arg, ret>>

NextPair ==
    \/ \E p \in {"none", "paper"}, c \in PairCharacteristics(engine) \cup {NoValue} :
          CallPair(p, c)
    \/ Validate
    \/ CheckApplicable
    \/ Prepare
    \/ CallLLMPair
    \/ Parse
    \/ ReturnPair
    \/ Switch

SpecPair == InitPair /\ [][NextPair]_vars

----------------------------------------------------------------------------
(* Claims about the aggregation functions, checked under SpecAlg *)

Returned(f) == fn = f /\ ret # "pending"

\* the judgment a full list gives the domain called name, whatever the kind
\* of value that names it
JudgmentOf(domain_assessments, name) ==
    LET i == CHOOSE k \in DOMAIN domain_assessments :
                domain_assessments[k].domain.value = name
    IN  domain_assessments[i].judgment

\* every one of the five Cochrane domains is listed exactly once
IsFullRobList(domain_assessments) ==
    /\ Len(domain_assessments) = Len(RoBDomain)
    /\ \A d \in RoBDomainNames :
          \E i \in DOMAIN domain_assessments :
              domain_assessments[i].domain.value = d

NumConcerns(domain_assessments) ==
    Cardinality({i \in DOMAIN domain_assessments :
                    domain_assessments[i].judgment = SOME_CONCERNS})

\* C1: whenever the list handed to _apply_rob_algorithm holds a domain judged
\* high, at any position and whatever the other judgments, it returns high.
C1_AnyHighGivesHigh ==
    (Returned("rob") /\ \E i \in DOMAIN arg : arg[i].judgment = HIGH)
        => ret = HIGH

\* C1 witness: the only high domain is the last of five, the rest are low.
C1_Witness ==
    /\ Returned("rob") /\ Len(arg) = 5
    /\ arg[5].judgment = HIGH
    /\ \A i \in 1..4 : arg[i].judgment = LOW
    /\ ret = HIGH

\* C2: for every assignment of low / some_concerns to the five Cochrane
\* domains the result is high iff both critical domains are some_concerns or
\* at least three domains are some_concerns; otherwise some_concerns when at
\* least one domain is some_concerns, and low when all are low.
C2_NoHighRule ==
    (/\ Returned("rob")
     /\ IsFullRobList(arg)
     /\ \A i \in DOMAIN arg : arg[i].judgment \in {LOW, SOME_CONCERNS})
        => ret = IF \/ /\ JudgmentOf(arg, "randomization") = SOME_CONCERNS
                       /\ JudgmentOf(arg, "deviations_from_intended_interventions")
                              = SOME_CONCERNS
                    \/ NumConcerns(arg) >= 3
                 THEN HIGH
                 ELSE IF NumConcerns(arg) >= 1 THEN SOME_CONCERNS ELSE LOW

\* the fixed order critical > serious > moderate > no_information > low
LevelRank(level) ==
    CASE level = CRITICAL -> 4
      [] level = SERIOUS -> 3
      [] level = MODERATE -> 2
      [] level = NO_INFORMATION -> 1
      [] level = LOW -> 0

\* C4: for a non-empty list _apply_robins_i_algorithm returns the maximum
\* level present under critical > serious > moderate > no_information > low;
\* no_information beside only low gives no_information, and no_information
\* beside moderate gives moderate.
C4_WorstLevelWins ==
    (Returned("robins") /\ arg # <<>>)
        => /\ \E i \in DOMAIN arg : arg[i].level = ret
           /\ \A i \in DOMAIN arg : LevelRank(arg[i].level) <= LevelRank(ret)

\* C4 witness: no_information and moderate are both present and moderate wins.
C4_Witness ==
    /\ Returned("robins")
    /\ \E i \in DOMAIN arg : arg[i].level = NO_INFORMATION
    /\ \E i \in DOMAIN arg : arg[i].level = MODERATE
    /\ \A i \in DOMAIN arg : arg[i].level \in {NO_INFORMATION, MODERATE, LOW}
    /\ ret = MODERATE

Permuted(xs, p) == [i \in DOMAIN xs |-> xs[p[i]]]

LevelsOf(domain_assessments) ==
    {domain_assessments[i].level : i \in DOMAIN domain_assessments}

\* the list holding each level of S exactly once, by ascending rank
RECURSIVE CanonicalLevels(_)
CanonicalLevels(S) ==
    IF S = {} THEN <<>>
    ELSE LET lo == CHOOSE l \in S : \A m \in S : LevelRank(l) <= LevelRank(m)
         IN  <<[domain |-> DomainValue("Enum", "confounding"), level |-> lo]>>
                \o CanonicalLevels(S \ {lo})

\* C5: _apply_robins_i_algorithm returns the same level for every permutation
\* of its list, and the same level for any list with the same set of levels.
C5_RobinsOrderIndependent ==
    Returned("robins")
        => /\ \A p \in Perms(Len(arg)) :
                 apply_robins_i_algorithm(Permuted(arg, p)) = ret
           /\ apply_robins_i_algorithm(CanonicalLevels(LevelsOf(arg))) = ret

\* C5 witness: a list of distinct levels whose worst level is neither first
\* nor last.
C5_Witness ==
    /\ Returned("robins") /\ Len(arg) >= 3
    /\ Cardinality(LevelsOf(arg)) = Len(arg)
    /\ arg[2].level = CRITICAL
    /\ ret = CRITICAL

C11_OutOfTableRaises ==
    (Returned("start") /\ arg \notin StudyDesign)
        => (ret = "ValueError" /\ ret \notin GRADELevel)

\* C11 witness: the lookup was made for a value outside the table and raised.
C11_Witness ==
    Returned("start") /\ arg = UNKNOWN_DESIGN /\ ret = "ValueError"

----------------------------------------------------------------------------
(* Claims about assess_study, checked under Spec *)

\* the call of engine e is over and returned an Assessment
Succeeded(e) == pc = "done" /\ engine = e /\ result # NoValue

\* the list of the response as parsed: the same names and verdicts in order
SameEntries(parsed, raw, field) ==
    /\ Len(parsed) = Len(raw)
    /\ \A i \in DOMAIN raw :
          /\ parsed[i][field] = raw[i][field]
          /\ parsed[i].domain.value = raw[i].domain

\* the response of the scenario: both critical domains some_concerns, the
\* other three domains low
CriticalPairDomains ==
    [i \in DOMAIN RoBDomain |->
        [domain |-> RoBDomain[i],
         judgment |-> IF RoBDomain[i] \in {"randomization",
                                           "deviations_from_intended_interventions"}
                      THEN SOME_CONCERNS ELSE LOW]]

\* C3: when the upstream response reports randomization and
\* deviations_from_intended_interventions as some_concerns and the other three
\* domains as low, assess_study returns an Assessment whose overall risk is
\* high, whatever overall_risk the response proposed.
C3_CriticalPairGivesHigh ==
    (/\ pc = "done" /\ engine = "cochrane"
     /\ response.type = "json" /\ response.missing = "none"
     /\ response.domains = CriticalPairDomains
     /\ response.overall_risk \in RoBJudgment)
        => /\ result # NoValue
           /\ result.overall_risk = HIGH

\* C6: the overall_risk of the Assessment the Cochrane assess_study returns
\* is the value _apply_rob_algorithm computes from the parsed domain list; a
\* proposed value that differs is discarded.
C6_CochraneUsesComputed ==
    Succeeded("cochrane")
        => /\ SameEntries(result.domain_assessments, response.domains, "judgment")
           /\ result.overall_risk = apply_rob_algorithm(result.domain_assessments)

\* C6 witness: an Assessment was returned whose overall risk is not the one
\* the response proposed.
C6_Witness ==
    /\ Succeeded("cochrane")
    /\ Len(result.domain_assessments) = Len(RoBDomain)
    /\ response.overall_risk = LOW
    /\ result.overall_risk = HIGH

\* C7: the overall_bias of the Assessment the ROBINS-I assess_study returns
\* is the worst-domain value _apply_robins_i_algorithm computes from the
\* parsed domain list, never the proposed value when the two differ.
C7_RobinsUsesComputed ==
    Succeeded("robins")
        => /\ SameEntries(result.domain_assessments, response.domains, "level")
           /\ result.overall_bias =
                  apply_robins_i_algorithm(result.domain_assessments)

\* C7 witness: an Assessment was returned whose overall bias is not the one
\* the response proposed.
C7_Witness ==
    /\ Succeeded("robins")
    /\ result.domain_assessments # <<>>
    /\ response.overall_bias = LOW
    /\ result.overall_bias = CRITICAL

\* the level n steps below a starting level on the four-point scale
GradeScale == <<VERY_LOW, LOW, MODERATE, HIGH>>

GradeCertaintyFromTally(starting_level, downgrades) ==
    LET at == CHOOSE i \in DOMAIN GradeScale : GradeScale[i] = starting_level
    IN  GradeScale[IF at - downgrades < 1 THEN 1 ELSE at - downgrades]

\* C8 as stated: with every engine, the overall verdict of a returned
\* Assessment is the value the engine's own deterministic computation gives
\* for the Assessment's domain list (for GRADE: the starting level of the
\* design lowered by the downgrade tally), not the upstream suggestion.
C8_EveryEngineComputes ==
    /\ Succeeded("cochrane")
          => result.overall_risk = apply_rob_algorithm(result.domain_assessments)
    /\ Succeeded("robins")
          => result.overall_bias = apply_robins_i_algorithm(result.domain_assessments)
    /\ Succeeded("grade")
          => result.overall_certainty =
                GradeCertaintyFromTally(determine_starting_level(chars.study_design),
                                        result.total_downgrades)

\* C8 as amended: the Cochrane and ROBINS-I engines return the verdict their
\* algorithm computes from the Assessment's domain list; the GRADE engine
\* returns the final_grade of the upstream response as it is.
C8_ComputedExceptGrade ==
    /\ Succeeded("cochrane")
          => result.overall_risk = apply_rob_algorithm(result.domain_assessments)
    /\ Succeeded("robins")
          => result.overall_bias = apply_robins_i_algorithm(result.domain_assessments)
    /\ Succeeded("grade")
          => result.overall_certainty = response.final_grade

\* C8 witness: a GRADE Assessment was returned whose overall certainty is the
\* upstream final_grade and differs from what the starting level and the
\* downgrade tally give.
C8_Witness ==
    /\ Succeeded("grade")
    /\ result.overall_certainty = response.final_grade
    /\ result.overall_certainty #
          GradeCertaintyFromTally(determine_starting_level(chars.study_design),
                                  result.total_downgrades)

\* C9: the overall_certainty of every Assessment the GRADE assess_study
\* returns is the final_grade of the upstream response, whatever the starting
\* level of the design, the domain ratings and the downgrade tally.
C9_GradeKeepsFinalGrade ==
    Succeeded("grade") => result.overall_certainty = response.final_grade

\* C9 witness: a case series (starting level very_low) with a positive
\* downgrade tally is returned with overall certainty high.
C9_Witness ==
    /\ Succeeded("grade")
    /\ chars.study_design = CASE_SERIES
    /\ starting = VERY_LOW
    /\ result.total_downgrades > 0
    /\ result.overall_certainty = HIGH

\* the contribution the documentation gives a rating
C12_Contribution(rating) ==
    CASE rating = "serious" -> 1
      [] rating = "very_serious" -> 2
      [] rating = "not_serious" -> 0

RECURSIVE C12_Sum(_)
C12_Sum(domain_assessments) ==
    IF domain_assessments = <<>> THEN 0
    ELSE C12_Contribution(Head(domain_assessments).rating)
            + C12_Sum(Tail(domain_assessments))

\* C12: on a returned GRADE Assessment whose domains are rated serious,
\* very_serious or not_serious, total_downgrades is the sum of 1 per serious,
\* 2 per very_serious and 0 per not_serious rating of the list, and
\* downgrades_by_domain has an entry exactly for the domain names with a
\* non-zero contribution, the entry being a non-zero contribution of that
\* domain (the contribution, when the domain is listed once).
C12_DowngradeTally ==
    (/\ Succeeded("grade")
     /\ \A i \in DOMAIN result.domain_assessments :
            result.domain_assessments[i].rating \in GradeRatings)
        => LET das == result.domain_assessments
               by == result.downgrades_by_domain
               contributions(name) ==
                   {C12_Contribution(das[i].rating) :
                       i \in {j \in DOMAIN das : das[j].domain.value = name}}
           IN  /\ result.total_downgrades = C12_Sum(das)
               /\ DOMAIN by \subseteq GRADEDomain
               /\ \A name \in GRADEDomain :
                     /\ name \in DOMAIN by <=> contributions(name) \ {0} # {}
                     /\ name \in DOMAIN by => by[name] \in contributions(name) \ {0}

\* C12 witness: risk_of_bias serious and imprecision very_serious give a
\* total of 3 and the entries 1 and 2.
C12_Witness ==
    /\ Succeeded("grade")
    /\ Len(result.domain_assessments) = 2
    /\ result.domain_assessments[1].domain.value = "risk_of_bias"
    /\ result.domain_assessments[1].rating = "serious"
    /\ result.domain_assessments[2].domain.value = "imprecision"
    /\ result.domain_assessments[2].rating = "very_serious"
    /\ result.total_downgrades = 3
    /\ DOMAIN result.downgrades_by_domain = {"risk_of_bias", "imprecision"}
    /\ result.downgrades_by_domain["risk_of_bias"] = 1
    /\ result.downgrades_by_domain["imprecision"] = 2

\* the caller handed both a paper and characteristics
ValidInputs == paper # "none" /\ chars # NoValue

\* the error of the applicability check: raised ahead of the try block, with
\* no cause chained to it
NotApplicableError == Raised("exception_class", "not applicable", "none")

\* C13: a Cochrane call for a design other than RCT never reaches the
\* upstream model or the try block, and ends with the applicability error,
\* which no except clause has wrapped.
C13_CochraneOnlyRct ==
    (engine = "cochrane" /\ ValidInputs /\ chars.study_design # RCT)
        => /\ llm_calls = 0
           /\ response = NoValue
           /\ pc \in {"validate", "applicability", "done"}
           /\ pc = "done" => (error = NotApplicableError /\ result = NoValue)

\* C13 witness: a Cochrane call for a cohort study ended with the
\* applicability error.
C13_Witness ==
    /\ pc = "done" /\ engine = "cochrane" /\ ValidInputs
    /\ chars.study_design = COHORT
    /\ error = NotApplicableError
    /\ llm_calls = 0

\* C14: a ROBINS-I call for a design other than cohort, case-control and
\* case series never reaches the upstream model and ends with the
\* applicability error; a call for one of the three passes the check and, once
\* over, has invoked the upstream model.
C14_RobinsApplicableDesigns ==
    (engine = "robins" /\ ValidInputs)
        => IF chars.study_design \in {COHORT, CASE_CONTROL, CASE_SERIES}
           THEN /\ error # NotApplicableError
                /\ pc \in {"parse", "done"} => llm_calls = 1
           ELSE /\ llm_calls = 0
                /\ response = NoValue
                /\ pc \in {"validate", "applicability", "done"}
                /\ pc = "done" => (error = NotApplicableError /\ result = NoValue)

\* C14 witness: a ROBINS-I call for a randomized trial ended with the
\* applicability error and no upstream call.
C14_Witness ==
    /\ pc = "done" /\ engine = "robins" /\ ValidInputs
    /\ chars.study_design = RCT
    /\ error = NotApplicableError
    /\ llm_calls = 0

\* C15: in each engine a call without a paper or without characteristics
\* does nothing but raise the ValueError of the input validation: no
\* applicability check, no starting-level lookup, no log entry, no upstream
\* call; the ValueError is raised as it is (no exception_class, no cause),
\* and names the paper when both arguments are absent.
C15_InvalidInputFirst ==
    (engine \in Engines /\ ~ValidInputs)
        => /\ pc \in {"validate", "done"}
           /\ llm_calls = 0
           /\ response = NoValue
           /\ starting = "unset"
           /\ log = {}
           /\ pc = "done"
                => /\ result = NoValue
                   /\ error = Raised("ValueError",
                                     IF paper = "none" THEN "paper cannot be None"
                                     ELSE "characteristics cannot be None",
                                     "none")

\* C15 witness: a GRADE call with neither argument ended with the ValueError
\* about the paper.
C15_Witness ==
    /\ pc = "done" /\ engine = "grade"
    /\ paper = "none" /\ chars = NoValue
    /\ error = Raised("ValueError", "paper cannot be None", "none")

\* the upstream call failed, or its response lacks a required field or holds
\* an enumerated value no member matches
FaultyResponse(e, data) ==
    \/ data.type = "raise"
    \/ /\ data.type = "json"
       /\ \/ data.missing # "none"
          \/ /\ e = "cochrane"
             /\ \/ data.overall_risk \notin RoBJudgment
                \/ \E i \in DOMAIN data.domains :
                      \/ data.domains[i].domain \notin RoBDomainNames
                      \/ data.domains[i].judgment \notin RoBJudgment
          \/ /\ e = "robins"
             /\ \/ data.overall_bias \notin ROBINSILevel
                \/ \E i \in DOMAIN data.domains :
                      \/ data.domains[i].domain \notin ROBINSIDomainNames
                      \/ data.domains[i].level \notin ROBINSILevel
          \/ /\ e = "grade"
             /\ \/ data.final_grade \notin GRADELevel
                \/ data.starting_level \notin GRADELevel
                \/ \E i \in DOMAIN data.domains :
                      \/ data.domains[i].domain \notin GRADEDomain
                      \/ data.domains[i].rating \notin
                            {"not_serious", "serious", "very_serious"}

\* C16: in each engine, a call whose upstream call failed or whose response
\* lacks a required field or holds an enumerated value that matches no member
\* (a GRADE domain rating included) ends with the engine's exception_class
\* chained to the original exception, and returns no Assessment.
C16_FaultsRaiseAssessmentFailed ==
    (pc = "done" /\ engine \in Engines /\ response # NoValue
        /\ FaultyResponse(engine, response))
        => /\ result = NoValue
           /\ error # NoValue
           /\ error.type = "exception_class"
           /\ error.cause \in {"Exception", "KeyError", "ValueError"}

TaxonomyKinds ==
    {"InvalidInput", "MethodologyNotApplicable", "UnsupportedDesign",
     "AssessmentFailed"}

\* the kind an error shows its caller: the ValueError of the input
\* validation; the applicability error (no cause); a ValueError about the
\* design that is not wrapped; one of the three wrappings of a cause
ErrorIsOfKind(err, kind) ==
    CASE kind = "InvalidInput" ->
            /\ err.type = "ValueError" /\ err.cause = "none"
            /\ err.message \in {"paper cannot be None",
                                 "characteristics cannot be None"}
      [] kind = "MethodologyNotApplicable" ->
            /\ err.type = "exception_class" /\ err.cause = "none"
            /\ err.message = "not applicable"
      [] kind = "UnsupportedDesign" ->
            /\ err.type = "ValueError" /\ err.cause = "none"
            /\ err.message = "unsupported study design"
      [] kind = "AssessmentFailed" ->
            /\ err.type = "exception_class"
            /\ <<err.cause, err.message>> \in
                  {<<"KeyError", "missing key">>,
                   <<"ValueError", "invalid value">>,
                   <<"Exception", "assessment failed">>}

\* an Assessment with every field, built from a complete response
FullyPopulated(e, a, data) ==
    /\ data # NoValue
    /\ data.type = "json"
    /\ data.missing = "none"
    /\ Len(a.domain_assessments) = Len(data.domains)
    /\ CASE e = "cochrane" ->
              /\ a.type = "CochraneRoBAssessment"
              /\ a.overall_risk \in RoBJudgment
              /\ DOMAIN a = {"type", "overall_risk", "domain_assessments"}
         [] e = "robins" ->
              /\ a.type = "ROBINSIAssessment"
              /\ a.overall_bias \in ROBINSILevel
              /\ {"type", "study_design", "overall_bias", "domain_assessments"}
                    \subseteq DOMAIN a
         [] e = "grade" ->
              /\ a.type = "GRADEAssessment"
              /\ a.overall_certainty \in GRADELevel
              /\ a.starting_level \in GRADELevel
              /\ a.total_downgrades \in Nat
              /\ DOMAIN a = {"type", "overall_certainty", "starting_level",
                             "domain_assessments", "total_downgrades",
                             "downgrades_by_domain"}

\* C17: a call that is over has either returned a fully populated Assessment
\* and raised nothing, or raised an error of exactly one kind of the taxonomy
\* and returned nothing.
C17_AssessmentOrOneError ==
    (pc = "done" /\ engine \in Engines)
        => \/ /\ error = NoValue
              /\ result # NoValue
              /\ FullyPopulated(engine, result, response)
           \/ /\ result = NoValue
              /\ error # NoValue
              /\ Cardinality({k \in TaxonomyKinds : ErrorIsOfKind(error, k)}) = 1

\* C17 witness: a Cochrane call whose response lacked the summary ended
\* with the wrapped KeyError and no Assessment.
C17_Witness ==
    /\ pc = "done" /\ engine = "cochrane"
    /\ response # NoValue /\ response.type = "json"
    /\ response.missing = "summary"
    /\ result = NoValue
    /\ ErrorIsOfKind(error, "AssessmentFailed")

\* the applicability check of the engine lets the design through (GRADE has
\* none)
PassesApplicability ==
    CASE engine = "cochrane" -> chars.study_design = RCT
      [] engine = "robins" -> chars.study_design \in {COHORT, CASE_CONTROL, CASE_SERIES}
      [] engine = "grade" -> TRUE

\* what holds of the upstream call count whatever the call's inputs: never
\* above one, and once the upstream model has answered or failed the call
\* only remains to be ended
AtMostOneUpstreamCall ==
    /\ llm_calls \in {0, 1}
    /\ response # NoValue => (llm_calls = 1 /\ pc \in {"parse", "done"})
    /\ llm_calls = 1 => response # NoValue

\* C18 as stated: the upstream model is invoked at most once in a call, and
\* a call that is over has invoked it exactly once if the input validation
\* and the applicability check passed and not at all otherwise.
C18_OnceWhenChecksPass ==
    engine \in Engines
        => /\ AtMostOneUpstreamCall
           /\ pc = "done"
                => llm_calls = IF ValidInputs /\ PassesApplicability THEN 1 ELSE 0

\* C18 amended: the same, with the GRADE starting-level lookup among the
\* steps that have to pass before the upstream model is invoked.
C18_OnceWhenChecksAndLookupPass ==
    engine \in Engines
        => /\ AtMostOneUpstreamCall
           /\ pc = "done"
                => llm_calls =
                     IF /\ ValidInputs
                        /\ PassesApplicability
                        /\ engine = "grade" => chars.study_design \in StudyDesign
                     THEN 1 ELSE 0

\* C18 witness: a ROBINS-I call whose upstream call raised is over after
\* that one call, with the failure raised to the caller.
C18_Witness ==
    /\ pc = "done" /\ engine = "robins"
    /\ response = [type |-> "raise"]
    /\ llm_calls = 1
    /\ error # NoValue /\ error.cause = "Exception"

\* the text a description made up from the characteristics shows for an
\* optional value (an empty text is shown like an absent one)
C19_Shown(v) ==
    IF v = NoValue THEN "not specified"
    ELSE IF v.value = "" THEN "not specified"
    ELSE v.value

\* C19: on a returned ROBINS-I Assessment the target trial description is
\* the upstream one, unchanged, when that has 20 characters or more; when it
\* is absent, empty or shorter, it is a text made up of the intervention, the
\* comparator, the population and the primary outcome of the characteristics,
\* "not specified" standing for an absent one. Either way it is not empty and
\* has at least 20 characters.
C19_TargetTrialDescription ==
    Succeeded("robins")
        => LET upstream == response.target_trial
               description == result.target_trial_description
               unusable == \/ upstream = NoValue
                           \/ upstream # NoValue /\ Len(upstream.value) < 20
           IN  /\ unusable
                    => description =
                         "Hypothetical RCT comparing "
                            \o C19_Shown(chars.intervention_exposure)
                            \o " vs " \o C19_Shown(chars.comparator)
                            \o " in " \o C19_Shown(chars.population)
                            \o " measuring " \o C19_Shown(chars.primary_outcome)
               /\ ~unusable => description = upstream.value
               /\ description # ""
               /\ Len(description) >= 20

\* C19 witness: an upstream description of 19 characters and characteristics
\* without a comparator gave the made-up description.
C19_Witness ==
    /\ Succeeded("robins")
    /\ response.target_trial = Str("A target trial of X")
    /\ chars.comparator = NoValue
    /\ result.target_trial_description =
          "Hypothetical RCT comparing statin vs not specified in adults measuring mortality"

\* the response holds a domain list and a proposed verdict the engine can
\* parse, so that a computed verdict exists to compare the proposed one with
C20_Comparable ==
    /\ engine \in {"cochrane", "robins"}
    /\ response # NoValue
    /\ response.type = "json"
    /\ response.missing \notin {"domains", "overall"}
    /\ IF engine = "cochrane"
       THEN /\ response.overall_risk \in RoBJudgment
            /\ \A i \in DOMAIN response.domains :
                  /\ response.domains[i].domain \in RoBDomainNames
                  /\ response.domains[i].judgment \in RoBJudgment
       ELSE /\ response.overall_bias \in ROBINSILevel
            /\ \A i \in DOMAIN response.domains :
                  /\ response.domains[i].domain \in ROBINSIDomainNames
                  /\ response.domains[i].level \in ROBINSILevel

\* the verdict the engine's algorithm gives for the response's domain list
C20_Computed ==
    IF engine = "cochrane"
    THEN apply_rob_algorithm(
            [i \in DOMAIN response.domains |->
                [domain |-> DomainValue(models, response.domains[i].domain),
                 judgment |-> response.domains[i].judgment]])
    ELSE apply_robins_i_algorithm(
            [i \in DOMAIN response.domains |->
                [domain |-> DomainValue("Enum", response.domains[i].domain),
                 level |-> response.domains[i].level]])

C20_Proposed ==
    IF engine = "cochrane" THEN response.overall_risk ELSE response.overall_bias

\* C20: a Cochrane or ROBINS-I call whose response is complete and well
\* formed and proposes a verdict other than the computed one returns an
\* Assessment, raises nothing, and has logged the discrepancy warning; and the
\* discrepancy warning is in the log of a call only if the proposed and the
\* computed verdict of that call differ.
C20_DiscrepancyOnlyWarns ==
    /\ (pc = "done" /\ C20_Comparable /\ ~FaultyResponse(engine, response)
            /\ C20_Proposed # C20_Computed)
          => /\ result # NoValue
             /\ error = NoValue
             /\ "warning_discrepancy" \in log
    /\ "warning_discrepancy" \in log
          => (C20_Comparable /\ C20_Proposed # C20_Computed)

\* C20 witness: a ROBINS-I call whose response proposed low for a serious
\* confounding domain returned an Assessment and logged the warning.
C20_Witness ==
    /\ Succeeded("robins")
    /\ response.overall_bias = LOW
    /\ result.overall_bias = SERIOUS
    /\ "warning_discrepancy" \in log

\* What one assess_study call of engine e, run from start to end with
\* nothing else going on, leaves its caller with when handed paper p and
\* characteristics c and, should it ask, given the upstream response r:
\* the Assessment or the error, what it logged, how often it asked upstream.
AssessAlone(e, p, c, r, kind) ==
    LET ended(res, err, logged, n) ==
            [result |-> res, error |-> err, log |-> logged, llm_calls |-> n]
        checked == validate_inputs(p, c)
    IN  IF checked # "ok"
        THEN ended(NoValue, Raised("ValueError", checked, "none"), {}, 0)
        ELSE IF \/ e = "cochrane" /\ ~cochrane_applicable(c.study_design)
                \/ e = "robins" /\ ~robins_applicable(c.study_design)
        THEN ended(NoValue, Raised("exception_class", "not applicable", "none"),
                   {}, 0)
        ELSE LET level == IF e = "grade"
                          THEN determine_starting_level(c.study_design)
                          ELSE "unset"
                 begun == {"info_start"} \cup
                            (IF e = "robins" THEN case_series_note(c.study_design)
                             ELSE {})
             IN  IF level = "ValueError"
                 THEN ended(NoValue,
                            Raised("exception_class", ExceptMessage("ValueError"),
                                   "ValueError"),
                            begun, 0)
                 ELSE LET out == CASE e = "cochrane" -> cochrane_parse(r, kind)
                                   [] e = "robins" -> robins_parse(r, c)
                                   [] e = "grade" -> grade_parse(r, level)
                      IN  IF out.raised = "none"
                          THEN ended(out.assessment, NoValue,
                                     begun \cup out.logged, 1)
                          ELSE ended(NoValue,
                                     Raised("exception_class",
                                            ExceptMessage(out.raised), out.raised),
                                     begun \cup out.logged \cup
                                        (IF out.raised = "Exception"
                                         THEN {"error"} ELSE {}),
                                     1)

\* what the call of the current state has left its caller with
Ended == [result |-> result, error |-> error, log |-> log, llm_calls |-> llm_calls]

\* C21: a ROBINS-I call for a case series ends as the call with the same
\* paper, the same other characteristics and the same upstream response ends
\* for a cohort study: the same error or the same overall bias, domain list
\* and target trial description, the same number of upstream calls, and the
\* same log but for the one note on case series (the Assessment differs in
\* its study_design only).
C21_CaseSeriesLikeCohort ==
    (pc = "done" /\ engine = "robins" /\ ValidInputs
        /\ chars.study_design \in {COHORT, CASE_SERIES})
        => LET cohort == AssessAlone("robins", paper,
                                     [chars EXCEPT !.study_design = COHORT],
                                     response, models)
           IN  IF chars.study_design = COHORT
               THEN Ended = cohort
               ELSE /\ error = cohort.error
                    /\ llm_calls = cohort.llm_calls
                    /\ "info_case_series" \notin cohort.log
                    /\ log = cohort.log \cup {"info_case_series"}
                    /\ (result = NoValue) <=> (cohort.result = NoValue)
                    /\ result # NoValue
                         => /\ result.study_design = CASE_SERIES
                            /\ [result EXCEPT !.study_design = COHORT]
                                  = cohort.result

\* C21 witness: a case-series call returned an Assessment and logged the note.
C21_Witness ==
    /\ Succeeded("robins")
    /\ chars.study_design = CASE_SERIES
    /\ "info_case_series" \in log
    /\ result.overall_bias = MODERATE

\* C22: while two calls on one instance take their steps in any order, the
\* call taking steps works on the arguments it was made with, and when it is
\* over it has left its caller with what the same call leaves when run
\* alone on those arguments and that upstream response; and no step changes
\* the configuration of the instance.
C22_CallsIndependent ==
    /\ [](pc # "idle"
            => /\ given[current] # NoValue
               /\ paper = given[current].paper
               /\ chars = given[current].chars
               /\ pc = "done"
                    => Ended = AssessAlone(engine, given[current].paper,
                                           given[current].chars, response, models))
    /\ [][<<engine, models>>' = <<engine, models>>]_vars

\* C22 witness: a ROBINS-I call for a cohort study returned its Assessment
\* while a call for a trial on the same instance was stopped half way.
C22_Witness ==
    /\ Succeeded("robins")
    /\ chars.study_design = COHORT
    /\ saved.pc = "applicability"
    /\ saved.chars # NoValue
    /\ saved.chars.study_design = RCT

\* C23: the starting_level of a returned GRADE Assessment is the level the
\* table gives for the study design of the call (the one the lookup
\* returned), whatever starting_level the upstream response holds.
C23_StartingLevelFromTable ==
    Succeeded("grade")
        => /\ result.starting_level = determine_starting_level(chars.study_design)
           /\ result.starting_level = starting

\* C24: a GRADE call with a paper and characteristics whose study design is
\* no entry of the table ends with an error that is not one of the wrappings
\* by which AssessmentFailed is raised, so that its caller can tell the two
\* apart.
C24_UnsupportedDesignOwnKind ==
    (pc = "done" /\ engine = "grade" /\ ValidInputs
        /\ chars.study_design \notin StudyDesign)
        => /\ error # NoValue
           /\ ~ErrorIsOfKind(error, "AssessmentFailed")

\* C25: in a GRADE call the starting level has been looked up by the time
\* the upstream model is invoked, and a call for a study design that is no
\* entry of the table ends with an error without the upstream model having
\* been invoked.
C25_LookupBeforeUpstream ==
    (engine = "grade" /\ ValidInputs)
        => /\ (pc \in {"call_llm", "parse"} \/ llm_calls > 0)
                => /\ starting \in GRADELevel
                   /\ chars.study_design \in StudyDesign
           /\ chars.study_design \notin StudyDesign
                => /\ llm_calls = 0
                   /\ response = NoValue
                   /\ starting = "unset"
                   /\ pc \in {"validate", "prepare", "done"}
                   /\ pc = "done" => (error # NoValue /\ result = NoValue)

\* C25 witness: a GRADE call for an unknown design is over, with an error
\* and no upstream call.
C25_Witness ==
    /\ pc = "done" /\ engine = "grade" /\ ValidInputs
    /\ chars.study_design = UNKNOWN_DESIGN
    /\ error # NoValue /\ error.cause = "ValueError"
    /\ llm_calls = 0

\* the sum of the values of a mapping from names to numbers
RECURSIVE C26_SumOfValues(_)
C26_SumOfValues(by) ==
    IF DOMAIN by = {} THEN 0
    ELSE LET name == CHOOSE n \in DOMAIN by : TRUE
         IN  by[name] + C26_SumOfValues([n \in DOMAIN by \ {name} |-> by[n]])

\* C26: on every returned GRADE Assessment total_downgrades is the sum of
\* the values of downgrades_by_domain, lists that name a domain more than
\* once included.
C26_TotalIsSumOfEntries ==
    Succeeded("grade")
        => result.total_downgrades = C26_SumOfValues(result.downgrades_by_domain)

\* the list with its i-th and (i+1)-th assessment exchanged
Swapped(xs, i) ==
    [k \in DOMAIN xs |-> IF k = i THEN xs[i + 1]
                          ELSE IF k = i + 1 THEN xs[i]
                          ELSE xs[k]]

\* C27: _apply_rob_algorithm returns the same judgment for every permutation
\* of its list, lists that hold a domain more than once with different
\* judgments included. (Every permutation is a chain of exchanges of
\* neighbours, and every list that such an exchange gives is itself one of
\* the lists checked.)
C27_RobOrderIndependent ==
    Returned("rob")
        => \A i \in 1..(Len(arg) - 1) :
              apply_rob_algorithm(Swapped(arg, i)) = ret

\* how severe a Cochrane judgment is: low < some_concerns < high
C28_Severity(judgment) ==
    CASE judgment = LOW -> 0
      [] judgment = SOME_CONCERNS -> 1
      [] judgment = HIGH -> 2

\* the list names each of the five Cochrane domains exactly once
C28_AssignsFiveDomains(xs) ==
    /\ Len(xs) = Len(RoBDomain)
    /\ \A i \in DOMAIN RoBDomain :
          Cardinality({k \in DOMAIN xs : xs[k].domain.value = RoBDomain[i]}) = 1

\* the lists that differ from xs in one judgment, which is more severe
C28_Raised(xs) ==
    UNION {{[xs EXCEPT ![k].judgment = j] :
               j \in {h \in RoBJudgment :
                        C28_Severity(h) > C28_Severity(xs[k].judgment)}} :
           k \in DOMAIN xs}

\* C28: for every assignment of judgments to the five Cochrane domains the
\* overall judgment is at least as severe as every domain's judgment, and
\* making one domain's judgment more severe never makes the overall
\* judgment less severe.
C28_MonotoneNeverUnderstates ==
    Returned("rob") /\ C28_AssignsFiveDomains(arg)
        => /\ \A k \in DOMAIN arg :
                 C28_Severity(ret) >= C28_Severity(arg[k].judgment)
           /\ \A ys \in C28_Raised(arg) :
                 C28_Severity(apply_rob_algorithm(ys)) >= C28_Severity(ret)

\* an assignment judged some_concerns overall that one more severe
\* judgment turns into high
C28_Witness ==
    /\ Returned("rob") /\ C28_AssignsFiveDomains(arg)
    /\ ret = SOME_CONCERNS
    /\ \E k \in DOMAIN arg : arg[k].judgment = SOME_CONCERNS
    /\ \E ys \in C28_Raised(arg) :
          /\ \A k \in DOMAIN ys : ys[k].judgment # HIGH
          /\ apply_rob_algorithm(ys) = HIGH

\* the upstream response of the call is otherwise well formed and its
\* domain list is empty
C29_NoDomains ==
    /\ pc = "done" /\ engine \in {"cochrane", "robins"}
    /\ response.type = "json"
    /\ ~FaultyResponse(engine, response)
    /\ response.domains = <<>>

\* C29: when the upstream response holds an empty domain list, Cochrane and
\* ROBINS-I assess_study return an Assessment with no domain assessments
\* whose overall verdict is low, whatever verdict the response proposed;
\* neither engine asks for its full set of domains.
C29_EmptyDomainListIsLow ==
    C29_NoDomains
        => /\ result # NoValue /\ error = NoValue
           /\ result.domain_assessments = <<>>
           /\ engine = "cochrane" => result.overall_risk = LOW
           /\ engine = "robins" => result.overall_bias = LOW

\* ROBINS-I: the response proposed moderate with no domains, low is returned
C29_Witness ==
    /\ C29_NoDomains /\ engine = "robins"
    /\ response.overall_bias = MODERATE
    /\ result # NoValue /\ result.overall_bias = LOW

\* the response has a domain list whose every entry is valid
C30_ValidDomains ==
    /\ pc = "done" /\ engine \in {"cochrane", "robins"}
    /\ response.type = "json"
    /\ response.missing # "domains"
    /\ engine = "cochrane"
          => \A i \in DOMAIN response.domains : RobEntryValid(response.domains[i])
    /\ engine = "robins"
          => \A i \in DOMAIN response.domains : RobinsEntryValid(response.domains[i])

\* the list names every domain of the engine
C30_CompleteDomains ==
    {response.domains[i].domain : i \in DOMAIN response.domains}
        = (IF engine = "cochrane" THEN RoBDomainNames ELSE ROBINSIDomainNames)

\* the verdict the response proposes is missing or no member has its value
C30_NoProposedVerdict ==
    \/ response.missing = "overall"
    \/ /\ response.missing = "none"
       /\ engine = "cochrane" => response.overall_risk \notin RoBJudgment
       /\ engine = "robins" => response.overall_bias \notin ROBINSILevel

\* C30: in Cochrane and ROBINS-I assess_study a response whose domain list
\* is valid (a complete one included) but whose overall verdict is missing
\* or is no known member makes the call raise the engine's exception_class,
\* chained to the KeyError or ValueError, and return no Assessment; the
\* verdict is parsed before the algorithm runs, so no discrepancy is logged.
C30_ProposedVerdictMandatory ==
    C30_ValidDomains /\ C30_NoProposedVerdict
        => /\ result = NoValue
           /\ error # NoValue
           /\ error.type = "exception_class"
           /\ error.cause = (IF response.missing = "overall"
                             THEN "KeyError" ELSE "ValueError")
           /\ "warning_discrepancy" \notin log

\* ROBINS-I: all seven domains are assessed, the verdict is missing, the
\* call raised
C30_Witness ==
    /\ C30_ValidDomains /\ C30_CompleteDomains /\ C30_NoProposedVerdict
    /\ engine = "robins" /\ response.missing = "overall"
    /\ result = NoValue /\ error # NoValue

====
